---- MODULE Spec2Model ----
(***************************************************************************)
(* Model of the POST /extract handler of src/app.py (extract_recipe).      *)
(*                                                                         *)
(* A request carries form data; the handler calls the generative model     *)
(* (once in text mode, twice in image mode), reshapes the parsed JSON into *)
(* page blocks, calls the workspace API once and answers with JSON.        *)
(* The two external services are nondeterministic: each call either raises *)
(* or returns one value of a bounded set.                                  *)
(*                                                                         *)
(* JSON values are tagged records: [t |-> "null"], [t |-> "bool", v],      *)
(* [t |-> "str", v |-> <<chars>>], [t |-> "list", v |-> <<values>>] and    *)
(* [t |-> "obj", <keys>]; a key that the object does not hold has the      *)
(* value Absent.  Python strings are sequences of one-character strings.   *)
(***************************************************************************)
EXTENDS Integers, Sequences, FiniteSets, TLC

VARIABLES env, form, pc, recipe, source, filesRead, calls, page, resp, schedule

vars == <<env, form, pc, recipe, source, filesRead, calls, page, resp, schedule>>

(***************************************************************************)
(* Bounds of the model.                                                    *)
(***************************************************************************)
MaxTextLen == 1   \* characters of the recipe_text form field
MaxImages == 1    \* uploaded files under the 'images' key
MaxItems == 1     \* entries of one ingredient list
MaxSteps == 1     \* entries of the steps list

(***************************************************************************)
(* JSON values and the Python operations the handler applies to them.      *)
(***************************************************************************)
Absent == [t |-> "absent"]
Null == [t |-> "null"]
Bool(b) == [t |-> "bool", v |-> b]
Str(s) == [t |-> "str", v |-> s]
List(s) == [t |-> "list", v |-> s]

NoExc == [type |-> "none"]
Exc(ty, m) == [type |-> ty, msg |-> m]
Ok(x) == [exc |-> NoExc, val |-> x]
Raise(e) == [exc |-> e]

\* m, then F on its value: the first exception raised ends the computation
Bind(m, F(_)) == IF m.exc # NoExc THEN m ELSE F(m.val)

\* dict.get(key, default) on an object whose field key holds value x
GetOr(x, default) == IF x = Absent THEN default ELSE x

\* Python truth value of a JSON value
Truthy(x) ==
    CASE x.t = "null" -> FALSE
      [] x.t = "bool" -> x.v
      [] x.t = "str" -> Len(x.v) > 0
      [] x.t = "list" -> Len(x.v) > 0
      [] OTHER -> TRUE

\* isinstance(x, str)
IsStr(x) == x.t = "str"

\* The elements a for-loop or a comprehension draws from x: the entries of a
\* list, the characters of a str; anything else is not iterable.
Iterate(x) ==
    CASE x.t = "list" -> Ok(x.v)
      [] x.t = "str" -> Ok([i \in 1..Len(x.v) |-> Str(<<x.v[i]>>)])
      [] OTHER -> Raise(Exc("TypeError", "object is not iterable"))

\* a + b
Add(a, b) ==
    CASE a.t = "list" /\ b.t = "list" -> Ok(List(a.v \o b.v))
      [] a.t = "str" /\ b.t = "str" -> Ok(Str(a.v \o b.v))
      [] OTHER -> Raise(Exc("TypeError", "unsupported operand type(s) for +"))

IsSpace(c) == c \in {" ", "\n"}

RECURSIVE LStrip(_)
LStrip(s) == IF s # <<>> /\ IsSpace(Head(s)) THEN LStrip(Tail(s)) ELSE s

RECURSIVE RStrip(_)
RStrip(s) ==
    IF s # <<>> /\ IsSpace(s[Len(s)]) THEN RStrip(SubSeq(s, 1, Len(s) - 1)) ELSE s

\* str.strip()
Strip(s) == RStrip(LStrip(s))

\* str.upper() on the characters the model uses
UpperChar(c) ==
    CASE c = "y" -> "Y"
      [] c = "e" -> "E"
      [] c = "s" -> "S"
      [] c = "n" -> "N"
      [] c = "o" -> "O"
      [] OTHER -> c

Upper(s) == [i \in 1..Len(s) |-> UpperChar(s[i])]

\* needle in hay
Contains(hay, needle) ==
    \E i \in 0..(Len(hay) - Len(needle)) :
        SubSeq(hay, i + 1, i + Len(needle)) = needle

\* sep.join(items)
RECURSIVE Join(_, _)
Join(sep, items) ==
    IF items = <<>> THEN <<>>
    ELSE IF Len(items) = 1 THEN items[1]
    ELSE items[1] \o sep \o Join(sep, Tail(items))

(***************************************************************************)
(* The generative model's reply and its cleanup (lines 66-68, 91-93).      *)
(* A reply text is a sequence of tokens: a Markdown fence, the word json,  *)
(* whitespace, prose, or one JSON document.                                *)
(***************************************************************************)
Fence == [k |-> "fence"]   \* three backquotes
JsonWord == [k |-> "json"]
Ws == [k |-> "ws"]
Prose == [k |-> "prose"]
Doc(j) == [k |-> "doc", json |-> j]

RECURSIVE StripTokens(_)
StripTokens(s) ==
    IF s # <<>> /\ Head(s) = Ws THEN StripTokens(Tail(s))
    ELSE IF s # <<>> /\ s[Len(s)] = Ws THEN StripTokens(SubSeq(s, 1, Len(s) - 1))
    ELSE s

\* text.replace(<fence>json, '')
RECURSIVE RemoveJsonFence(_)
RemoveJsonFence(s) ==
    IF Len(s) >= 2 /\ s[1] = Fence /\ s[2] = JsonWord
    THEN RemoveJsonFence(SubSeq(s, 3, Len(s)))
    ELSE IF s = <<>> THEN <<>>
    ELSE <<Head(s)>> \o RemoveJsonFence(Tail(s))

\* text.replace(<fence>, '')
RemoveFence(s) == SelectSeq(s, LAMBDA x : x # Fence)

\* response.text.strip().replace(<fence>json, '').replace(<fence>, '').strip()
CleanText(s) == StripTokens(RemoveFence(RemoveJsonFence(StripTokens(s))))

\* json.loads(text): one document, whitespace allowed around it
JsonLoads(s) ==
    LET body == SelectSeq(s, LAMBDA x : x # Ws)
    IN IF Len(body) = 1 /\ body[1].k = "doc"
       THEN Ok(body[1].json)
       ELSE Raise(Exc("JSONDecodeError", "Expecting value"))

SdkError == Exc("SDKError", "external service error")

\* model.generate_content(...) followed by the cleanup and json.loads;
\* out is what the call does: it raises, or it returns a reply text.
ParseReply(out) ==
    IF out.kind = "raise" THEN Raise(SdkError)
    ELSE JsonLoads(CleanText(out.text))

\* recipe['isImaginary'] = value
SetImaginary(rcp, value) ==
    IF rcp.t = "obj" THEN Ok([rcp EXCEPT !.isImaginary = value])
    ELSE Raise(Exc("TypeError", "object does not support item assignment"))

\* HasText without .upper()
HasTextCaseSensitive(answer) == Contains(answer, <<"Y", "E", "S">>)

\* "YES" in check_response.text.upper()
HasText(answer) == Contains(Upper(answer), <<"Y", "E", "S">>)

(***************************************************************************)
(* Page blocks (lines 129-216).                                            *)
(***************************************************************************)
Seg(content, color, style) == [content |-> content, color |-> color, style |-> style]
Plain(content) == Seg(content, "default", "none")
Block(type, rich_text, icon, color) ==
    [type |-> type, rich_text |-> rich_text, icon |-> icon, color |-> color]
Divider == Block("divider", <<>>, "", "")

Digits == {"0", "1", "2", "3", "4", "5", "6", "7", "8", "9", "."}
Spaces == {" ", "\n"}

\* the index reached by walking left from i over characters of S
RECURSIVE BackWhile(_, _, _)
BackWhile(s, i, S) == IF i >= 1 /\ s[i] \in S THEN BackWhile(s, i - 1, S) ELSE i

\* re.search(r'^(.*?)(\s*\(\s*[\d.]+\s*g\s*\))\s*$', text): the split of
\* "1 cup flour (120g)" into the measure and the grey conversion
parse_ingredient_rich_text(text) ==
    IF ~IsStr(text) THEN Raise(Exc("TypeError", "expected string or bytes-like object"))
    ELSE
    LET s == text.v
        e == BackWhile(s, Len(s), Spaces)
        g == IF e >= 1 /\ s[e] = ")" THEN BackWhile(s, e - 1, Spaces) ELSE 0
        d == IF g >= 1 /\ s[g] = "g" THEN BackWhile(s, g - 1, Spaces) ELSE 0
        n == BackWhile(s, d, Digits)
        q == IF d >= 1 /\ n < d THEN BackWhile(s, n, Spaces) ELSE 0
        matched == q >= 1 /\ s[q] = "("
        p == IF matched THEN BackWhile(s, q - 1, Spaces) ELSE 0
    IN IF matched /\ \A i \in 1..p : s[i] # "\n"
       THEN Ok(<< Plain(Str(Strip(SubSeq(s, 1, p)))),
                  Seg(Str(<<" ", " ", " ", " ">> \o SubSeq(s, q, e)), "gray", "none") >>)
       ELSE Ok(<<Plain(text)>>)

checkbox(text, rich) ==
    IF rich
    THEN Bind(parse_ingredient_rich_text(text),
              LAMBDA rt : Ok(Block("to_do", rt, "", "")))
    ELSE Ok(Block("to_do", <<Plain(text)>>, "", ""))

heading3(text) == Block("heading_3", <<Plain(Str(<<text>>))>>, "", "")

\* [checkbox(i, rich=True) for i in items]
RECURSIVE Checkboxes(_)
Checkboxes(items) ==
    IF items = <<>> THEN Ok(<<>>)
    ELSE Bind(checkbox(Head(items), TRUE),
              LAMBDA b : Bind(Checkboxes(Tail(items)),
                              LAMBDA rest : Ok(<<b>> \o rest)))

\* if lst: children.append(heading3(h)); children.extend([checkbox(...) ...])
Section(header, lst) ==
    IF ~Truthy(lst) THEN Ok(<<>>)
    ELSE Bind(Iterate(lst),
              LAMBDA items : Bind(Checkboxes(items),
                                  LAMBDA boxes : Ok(<<heading3(header)>> \o boxes)))

\* "  .  ".join(step_ings), the separator being a middle dot
JoinIngredients(step_ings) ==
    Bind(Iterate(step_ings),
         LAMBDA items :
            IF \E i \in 1..Len(items) : ~IsStr(items[i])
            THEN Raise(Exc("TypeError", "sequence item: expected str instance"))
            ELSE Ok(Join(<<"  .  ">>, [i \in 1..Len(items) |-> items[i].v])))

\* one pass of the loop body of build_steps
StepBlocks(step) ==
    IF IsStr(step) THEN Ok(<<Block("to_do", <<Plain(step)>>, "", "")>>)
    ELSE IF step.t # "obj"
    THEN Raise(Exc("AttributeError", "object has no attribute 'get'"))
    ELSE IF ~Truthy(GetOr(step.ingredients, List(<<>>)))
    THEN Bind(checkbox(GetOr(step.instruction, Str(<<>>)), FALSE),
              LAMBDA box : Ok(<<box>>))
    ELSE Bind(checkbox(GetOr(step.instruction, Str(<<>>)), FALSE),
              LAMBDA box :
                 Bind(JoinIngredients(step.ingredients),
                      LAMBDA j :
                         Ok(<< box,
                               Block("paragraph",
                                     <<Seg(Str(<<":salt: ">> \o j), "blue", "italic")>>,
                                     "", "") >>)))

RECURSIVE StepsLoop(_)
StepsLoop(items) ==
    IF items = <<>> THEN Ok(<<>>)
    ELSE Bind(StepBlocks(Head(items)),
              LAMBDA b : Bind(StepsLoop(Tail(items)),
                              LAMBDA rest : Ok(b \o rest)))

build_steps(steps) == Bind(Iterate(steps), StepsLoop)

(***************************************************************************)
(* Responses (lines 75, 78, 107, 234, 236-239).                            *)
(***************************************************************************)
NoResp == [kind |-> "none"]
JsonResponse(body, status) == [kind |-> "json", status |-> status, body |-> body]
ErrorResponse(msg, status) == JsonResponse([error |-> msg], status)

ParseMsg == "Could not parse recipe. Try again or rephrase the text."
NoInputMsg == "Please provide recipe text or upload images."
NoImagesMsg == "No images provided"
NotConfiguredMsg == "Notion not configured"

\* HandleException without the second except clause: other exceptions escape
HandleExceptionJsonOnly(e) ==
    IF e.type = "JSONDecodeError" THEN ErrorResponse(ParseMsg, 500)
    ELSE [kind |-> "uncaught", exc |-> e]

\* HandleException without the first except clause: no retry message
HandleExceptionGeneric(e) == ErrorResponse(e.msg, 500)

\* the two except clauses of the handler
HandleException(e) ==
    IF e.type = "JSONDecodeError" THEN ErrorResponse(ParseMsg, 500)
    ELSE ErrorResponse(e.msg, 500)

\* NotConfiguredResponse returned without its status code
NotConfiguredDefaultStatus == ErrorResponse(NotConfiguredMsg, 200)

NotConfiguredResponse == ErrorResponse(NotConfiguredMsg, 500)

(***************************************************************************)
(* Saving to the workspace (lines 104-234).                                *)
(***************************************************************************)
NoPage == [created |-> FALSE]

\* NotionConfigured that forgets the database id
TokenOnly(e) == e.token

\* not (not notion_token or not notion_database_id)
NotionConfigured(e) == e.token /\ e.db

EmptyList == List(<<>>)
EmptyDict == [t |-> "obj", main |-> Absent, sauce |-> Absent, spicesAndHerbs |-> Absent]

\* FormGet without .strip()
FormGetNoStrip(field) == IF field.present THEN field.v ELSE <<>>

\* request.form.get(name, '').strip()
FormGet(field) == IF field.present THEN Strip(field.v) ELSE <<>>

\* lines 122-127
SplitIngredients(ingredients) ==
    IF ingredients.t = "list"
    THEN Ok([main |-> ingredients, sauce |-> EmptyList, spice |-> EmptyList])
    ELSE IF ingredients.t = "obj"
    THEN Ok([main |-> GetOr(ingredients.main, EmptyList),
             sauce |-> GetOr(ingredients.sauce, EmptyList),
             spice |-> GetOr(ingredients.spicesAndHerbs, EmptyList)])
    ELSE Raise(Exc("AttributeError", "object has no attribute 'get'"))

\* recipe.get("isImaginary", False)
IsImaginaryOf(rcp) == GetOr(rcp.isImaginary, Bool(FALSE))

\* f"{value}" for the values the model draws
Format(x) == IF IsStr(x) THEN x.v ELSE <<"None">>

\* recipe.get('cookTime') or 'N/A'
CookTimeOf(rcp) ==
    LET ct == GetOr(rcp.cookTime, Null)
    IN IF Truthy(ct) THEN Format(ct) ELSE <<"N/A">>

WarningCallout ==
    Block("callout",
          <<Plain(Str(<<"This is an AI-imagined recipe based on a food photo. Use as inspiration only!">>))>>,
          "robot", "yellow_background")

\* lines 220-222
PageTitle(rcp, is_imaginary) ==
    LET title == GetOr(rcp.title, Str(<<"Untitled Recipe">>))
    IN IF Truthy(is_imaginary)
       THEN Str(<<":sparkles: ">> \o Format(title) \o <<" (AI Recipe)">>)
       ELSE title

\* lines 204-216
SourceLinkBlocks(source_link) ==
    IF source_link # <<>>
    THEN << Divider,
            Block("paragraph",
                  << Seg(Str(<<"Source: ">>), "default", "bold"),
                     Seg(Str(source_link), "blue", "link") >>,
                  "", "") >>
    ELSE <<>>

\* lines 163-168
HeaderBlocks(rcp) ==
    << Block("callout",
             <<Plain(Str(<<"Cook Time: ">> \o CookTimeOf(rcp)
                         \o <<"     My Rating:  . . . . .">>))>>,
             "cooking", "orange_background"),
       Divider,
       Block("heading_2", <<Plain(Str(<<"Ingredients">>))>>, "", "") >>

\* lines 185-201
HistoryBlocks ==
    << Divider,
       Block("heading_2", <<Seg(Str(<<"Seora's History">>), "pink", "none")>>, "", ""),
       Block("paragraph",
             <<Seg(Str(<<"Drop your photos here when you make this recipe!">>),
                   "gray", "italic")>>, "", "") >>

\* lines 158-216: the children of the page, or the first exception raised
Children(rcp, is_imaginary, lists, steps, source_link) ==
    Bind(Section("Main Ingredients", lists.main), LAMBDA m :
    Bind(Section("Sauce", lists.sauce), LAMBDA sa :
    Bind(Section("Spices & Herbs", lists.spice), LAMBDA sp :
    Bind(build_steps(steps), LAMBDA st :
        Ok((IF Truthy(is_imaginary) THEN <<WarningCallout>> ELSE <<>>)
           \o HeaderBlocks(rcp)
           \o m \o sa \o sp
           \o << Divider,
                 Block("heading_2", <<Plain(Str(<<"Steps">>))>>, "", "") >>
           \o st
           \o HistoryBlocks
           \o SourceLinkBlocks(source_link))))))

\* the arguments of notion.pages.create (lines 224-229)
PageArgs(rcp, is_imaginary, children) ==
    [created |-> TRUE,
     icon |-> IF Truthy(is_imaginary) THEN "robot" ELSE "plate",
     title |-> PageTitle(rcp, is_imaginary),
     children |-> children]

\* lines 109-222: everything between the configuration check and the call
\* notion.pages.create: the arguments of that call, or the exception raised
BuildPage(rcp, source_link) ==
    IF rcp.t # "obj" THEN Raise(Exc("AttributeError", "object has no attribute 'get'"))
    ELSE Bind(SplitIngredients(GetOr(rcp.ingredients, EmptyDict)), LAMBDA lists :
         Bind(Children(rcp, IsImaginaryOf(rcp), lists, GetOr(rcp.steps, EmptyList),
                       source_link), LAMBDA ch :
              Ok(PageArgs(rcp, IsImaginaryOf(rcp), ch))))

\* AllIngredients that returns the main list alone
MainOnly(lists) == Ok(lists.main)

\* line 231
AllIngredients(lists) ==
    Bind(Add(lists.main, lists.sauce), LAMBDA ms : Add(ms, lists.spice))

\* line 232
FlatSteps(steps) ==
    Bind(Iterate(steps),
         LAMBDA items :
            IF \E i \in 1..Len(items) : ~IsStr(items[i]) /\ items[i].t # "obj"
            THEN Raise(Exc("AttributeError", "object has no attribute 'get'"))
            ELSE Ok(List([i \in 1..Len(items) |->
                            IF IsStr(items[i]) THEN items[i]
                            ELSE GetOr(items[i].instruction, Str(<<>>))])))

\* line 234
SuccessResponse(rcp, src, created, all_ingredients, flat_steps) ==
    JsonResponse([success |-> TRUE,
                  isImaginary |-> IsImaginaryOf(rcp),
                  source |-> src,
                  notion_url |-> GetOr(created.url, Str(<<>>)),
                  recipe |-> [rcp EXCEPT !.ingredients = all_ingredients,
                                         !.steps = flat_steps]],
                 200)

\* m, then F on its value; an exception is answered by the except clauses
Catch(m, F(_)) == IF m.exc # NoExc THEN HandleException(m.exc) ELSE F(m.val)

\* lines 231-234: what follows a successful notion.pages.create
Respond(rcp, src, created) ==
    Catch(SplitIngredients(GetOr(rcp.ingredients, EmptyDict)), LAMBDA lists :
    Catch(AllIngredients(lists), LAMBDA all :
    Catch(FlatSteps(GetOr(rcp.steps, EmptyList)), LAMBDA flat :
        SuccessResponse(rcp, src, created, all, flat))))

SaveResult(response, pg, called) == [resp |-> response, page |-> pg, called |-> called]

\* lines 224-239, given the arguments built for notion.pages.create
CreateAndRespond(args, rcp, src, created) ==
    IF args.exc # NoExc THEN SaveResult(HandleException(args.exc), NoPage, FALSE)
    ELSE IF created.kind = "raise"
    THEN SaveResult(HandleException(SdkError), NoPage, TRUE)
    ELSE SaveResult(Respond(rcp, src, created), args.val, TRUE)

\* lines 104-239 as one step: the response, the page the workspace now holds,
\* and whether notion.pages.create was called; created is what that call
\* does when it is reached
Save(rcp, source_link, e, src, created) ==
    IF ~NotionConfigured(e) THEN SaveResult(NotConfiguredResponse, NoPage, FALSE)
    ELSE CreateAndRespond(BuildPage(rcp, source_link), rcp, src, created)

(***************************************************************************)
(* The inputs the model draws: form data, environment, and what the two    *)
(* external services do.                                                   *)
(***************************************************************************)
SeqsUpTo(S, n) == UNION {[1..k -> S] : k \in 0..n}

NoField == [present |-> FALSE]
Field(s) == [present |-> TRUE, v |-> s]

Files(n) == [i \in 1..n |-> [mime |-> "image/jpeg", data |-> i]]

Forms ==
    [recipe_text : {NoField} \cup {Field(s) : s \in SeqsUpTo({" ", "a"}, MaxTextLen)},
     images : {Files(n) : n \in 0..MaxImages},
     source_link : {NoField, Field(<<" ", "u">>)}]

Envs == [token : BOOLEAN, db : BOOLEAN]

Recipe(title, im, ing, steps, ct, sv) ==
    [t |-> "obj", title |-> title, isImaginary |-> im, ingredients |-> ing,
     steps |-> steps, cookTime |-> ct, servings |-> sv, lang |-> Str(<<"en">>)]

IngredientsDict(m, sa, sp) ==
    [t |-> "obj", main |-> m, sauce |-> sa, spicesAndHerbs |-> sp]

StepDict(instruction, ings) ==
    [t |-> "obj", instruction |-> instruction, ingredients |-> ings]

Flour == Str(<<"1", " ", "c", "u", "p", " ", "(", "5", "g", ")">>)
Egg == Str(<<"e", "g", "g">>)
Oil == Str(<<"o", "i", "l">>)
Salt == Str(<<"s", "a", "l", "t">>)

MainValues ==
    {Absent, Null, Str(<<"a", "b">>), List(<<Null>>)}
        \cup {List(s) : s \in SeqsUpTo({Flour, Egg}, MaxItems)}
SauceValues == {Absent, List(<<Oil>>), Str(<<"o">>)}
SpiceValues == {Absent, List(<<Salt>>), Str(<<"s">>)}

IngredientsValues ==
    {Absent, Null, List(<<Flour>>)}
        \cup {IngredientsDict(m, sa, sp) :
                 m \in MainValues, sa \in SauceValues, sp \in SpiceValues}

StepValues ==
    { Str(<<"M", "i", "x">>),
      StepDict(Str(<<"B", "a", "k", "e">>), List(<<Egg, Salt>>)),
      StepDict(Absent, Absent),
      StepDict(Null, List(<<Null>>)),
      Null }

StepsValues ==
    {Absent, Null, Str(<<"x", "y">>)}
        \cup {List(s) : s \in SeqsUpTo(StepValues, MaxSteps)}

BaseIngredients == IngredientsDict(List(<<Flour>>), List(<<Oil>>), List(<<Salt>>))
BaseSteps == List(<<StepDict(Str(<<"B", "a", "k", "e">>), List(<<Egg, Salt>>))>>)
BaseTitle == Str(<<"T">>)
BaseRecipe == Recipe(BaseTitle, Bool(FALSE), BaseIngredients, BaseSteps, Null, Null)

\* The JSON objects the generative model may answer with: the scalar fields
\* vary together, and each of ingredients and steps varies over all its
\* shapes with the other fields at their base values.
Recipes ==
    {Recipe(ti, im, BaseIngredients, BaseSteps, ct, sv) :
        ti \in {Absent, BaseTitle},
        im \in {Absent, Null, Bool(FALSE), Bool(TRUE)},
        ct \in {Absent, Str(<<>>), Str(<<"3", "0", "m">>)},
        sv \in {Null, Str(<<"4">>)}}
    \cup {Recipe(BaseTitle, Bool(TRUE), ing, BaseSteps, Null, Null) :
             ing \in IngredientsValues}
    \cup {Recipe(BaseTitle, Bool(FALSE), BaseIngredients, st, Null, Null) :
             st \in StepsValues}

\* JSON documents that are not objects
OtherDocs == {Null, List(<<>>)}

ReplyTexts ==
    {<<Doc(d)>> : d \in Recipes \cup OtherDocs}
        \cup { <<Fence, JsonWord, Ws, Doc(BaseRecipe), Ws, Fence>>,
               <<Ws, Fence, Ws, Doc(BaseRecipe), Fence, Ws>>,
               <<Fence, Ws, JsonWord, Doc(BaseRecipe), Fence>>,
               <<Prose, Doc(BaseRecipe)>>,
               <<Doc(BaseRecipe), Doc(BaseRecipe)>>,
               <<>> }

Raises == [kind |-> "raise"]
Reply(text) == [kind |-> "ok", text |-> text]

ExtractResults == {Raises} \cup {Reply(x) : x \in ReplyTexts}

CheckResults ==
    {Raises} \cup
    {Reply(x) : x \in { <<"Y", "E", "S">>, <<"y", "e", "s", ".">>, <<"N", "O">>,
                        <<"N", "o", ",", " ", "y", "E", "s">>, <<"Y", "E">> }}

Created(url) == [kind |-> "ok", url |-> url]
CreateResults == {Raises, Created(Str(<<"https://notion/p1">>)), Created(Absent)}

(***************************************************************************)
(* The handler as a state machine; r is a request.                         *)
(***************************************************************************)
Call(site, images, result) == [site |-> site, images |-> images, result |-> result]

\* RecipeOf with recipe a module-level variable that all requests share
RecipeShared(r) == recipe[1]

\* the handler's own local variable of request r (line 59)
RecipeOf(r) == recipe[r]

\* Finish that records the error and falls through to the save
FinishAndContinue(r, response) ==
    /\ resp' = [resp EXCEPT ![r] = response]
    /\ pc' = [pc EXCEPT ![r] = "save"]

\* return jsonify(...): the response is sent and the handler ends
Finish(r, response) ==
    /\ resp' = [resp EXCEPT ![r] = response]
    /\ pc' = [pc EXCEPT ![r] = "done"]

\* the order in which the server runs the steps of its requests
Scheduled(r) == schedule' = Append(schedule, r)

\* lines 63, 74-75: blank recipe_text and no uploaded file
NoInput(r) ==
    /\ Scheduled(r)
    /\ pc[r] = "start"
    /\ FormGet(form[r].recipe_text) = <<>>
    /\ form[r].images = <<>>
    /\ Finish(r, ErrorResponse(NoInputMsg, 400))
    /\ UNCHANGED <<env, form, recipe, source, filesRead, calls, page>>

\* lines 68-70, given the outcome of json.loads
TextParsed(r, parsed) ==
    IF parsed.exc # NoExc
    THEN /\ Finish(r, HandleException(parsed.exc))
         /\ UNCHANGED <<recipe, source>>
    ELSE IF parsed.val.t # "obj"
    THEN /\ Finish(r, HandleException(SetImaginary(parsed.val, Bool(FALSE)).exc))
         /\ recipe' = [recipe EXCEPT ![r] = parsed.val]
         /\ UNCHANGED source
    ELSE /\ recipe' = [recipe EXCEPT ![r] = SetImaginary(parsed.val, Bool(FALSE)).val]
         /\ source' = [source EXCEPT ![r] = "text"]
         /\ pc' = [pc EXCEPT ![r] = "save"]
         /\ UNCHANGED resp

\* lines 63-70: text mode
ExtractText(r, out) ==
    /\ Scheduled(r)
    /\ pc[r] = "start"
    /\ FormGet(form[r].recipe_text) # <<>>
    /\ calls' = [calls EXCEPT ![r] = Append(@, Call("extract", 0, out))]
    /\ TextParsed(r, ParseReply(out))
    /\ UNCHANGED <<env, form, filesRead, page>>

\* lines 93-94, given the outcome of json.loads
ImageParsed(r, parsed) ==
    IF parsed.exc # NoExc
    THEN /\ Finish(r, HandleException(parsed.exc))
         /\ UNCHANGED recipe
    ELSE /\ recipe' = [recipe EXCEPT ![r] = parsed.val]
         /\ pc' = [pc EXCEPT ![r] = "check"]
         /\ UNCHANGED resp

\* lines 73-94: image mode, up to the reply of the extraction call
ExtractImage(r, out) ==
    /\ Scheduled(r)
    /\ pc[r] = "start"
    /\ FormGet(form[r].recipe_text) = <<>>
    /\ form[r].images # <<>>
    /\ filesRead' = [filesRead EXCEPT ![r] = Len(form[r].images)]
    /\ calls' = [calls EXCEPT ![r] = Append(@, Call("extract", Len(form[r].images), out))]
    /\ ImageParsed(r, ParseReply(out))
    /\ UNCHANGED <<env, form, source, page>>

\* lines 100-101, given the outcome of the assignment
ImaginarySet(r, set) ==
    IF set.exc # NoExc
    THEN /\ Finish(r, HandleException(set.exc))
         /\ UNCHANGED recipe
    ELSE /\ recipe' = [recipe EXCEPT ![r] = set.val]
         /\ pc' = [pc EXCEPT ![r] = "save"]
         /\ UNCHANGED resp

\* lines 96-101: the second question to the model
CheckImage(r, ans) ==
    /\ Scheduled(r)
    /\ pc[r] = "check"
    /\ calls' = [calls EXCEPT ![r] = Append(@, Call("check", Len(form[r].images), ans))]
    /\ IF ans.kind = "raise"
       THEN /\ Finish(r, HandleException(SdkError))
            /\ UNCHANGED recipe
       ELSE IF HasText(ans.text)
       THEN /\ pc' = [pc EXCEPT ![r] = "save"]
            /\ UNCHANGED <<recipe, resp>>
       ELSE ImaginarySet(r, SetImaginary(RecipeOf(r), Bool(TRUE)))
    /\ UNCHANGED <<env, form, source, filesRead, page>>

\* lines 224-239, given the outcome of the save
Saved(r, o, created) ==
    /\ Finish(r, o.resp)
    /\ page' = [page EXCEPT ![r] = o.page]
    /\ calls' = [calls EXCEPT ![r] =
                    IF o.called THEN Append(@, Call("create", 0, created)) ELSE @]

\* lines 103-239: the page is built, created and the response returned
SaveToNotion(r, created) ==
    /\ Scheduled(r)
    /\ pc[r] = "save"
    /\ Saved(r, Save(RecipeOf(r), FormGet(form[r].source_link), env, source[r], created),
             created)
    /\ UNCHANGED <<env, form, recipe, source, filesRead>>

Requests == DOMAIN pc

(* One request at a time, over all the inputs. *)
Init ==
    /\ env \in Envs
    /\ form \in [{1} -> Forms]
    /\ pc = [r \in {1} |-> "start"]
    /\ recipe = [r \in {1} |-> Null]
    /\ source = [r \in {1} |-> "image"]
    /\ filesRead = [r \in {1} |-> 0]
    /\ calls = [r \in {1} |-> <<>>]
    /\ page = [r \in {1} |-> NoPage]
    /\ resp = [r \in {1} |-> NoResp]
    /\ schedule = <<>>

Next ==
    \/ \E r \in Requests : NoInput(r)
    \/ \E r \in Requests, out \in ExtractResults : ExtractText(r, out)
    \/ \E r \in Requests, out \in ExtractResults : ExtractImage(r, out)
    \/ \E r \in Requests, ans \in CheckResults : CheckImage(r, ans)
    \/ \E r \in Requests, created \in CreateResults : SaveToNotion(r, created)

Spec == Init /\ [][Next]_vars

(***************************************************************************)
(* Two requests served concurrently: their steps interleave in any order.  *)
(* The inputs are a small set, one of each kind.                           *)
(***************************************************************************)
TextForm == [recipe_text |-> Field(<<"a">>), images |-> Files(1), source_link |-> NoField]
ImageForm == [recipe_text |-> Field(<<" ">>), images |-> Files(1),
              source_link |-> Field(<<" ", "u">>)]
EmptyForm == [recipe_text |-> NoField, images |-> Files(0), source_link |-> NoField]

ConcForms == {TextForm, ImageForm, EmptyForm}
ConcExtractResults ==
    { Raises, Reply(<<Prose>>), Reply(<<Doc(BaseRecipe)>>),
      Reply(<<Doc(Recipe(Absent, Bool(TRUE),
                         IngredientsDict(Null, List(<<Oil>>), Absent),
                         BaseSteps, Null, Null))>>) }
ConcCheckResults == {Reply(<<"Y", "E", "S">>), Reply(<<"N", "O">>)}
ConcCreateResults ==
    {Raises, Created(Str(<<"https://notion/p1">>)), Created(Str(<<"https://notion/p2">>))}

InitConc ==
    /\ env \in Envs
    /\ form \in [{1, 2} -> ConcForms]
    /\ pc = [r \in {1, 2} |-> "start"]
    /\ recipe = [r \in {1, 2} |-> Null]
    /\ source = [r \in {1, 2} |-> "image"]
    /\ filesRead = [r \in {1, 2} |-> 0]
    /\ calls = [r \in {1, 2} |-> <<>>]
    /\ page = [r \in {1, 2} |-> NoPage]
    /\ resp = [r \in {1, 2} |-> NoResp]
    /\ schedule = <<>>

NextConc ==
    \/ \E r \in Requests : NoInput(r)
    \/ \E r \in Requests, out \in ConcExtractResults : ExtractText(r, out)
    \/ \E r \in Requests, out \in ConcExtractResults : ExtractImage(r, out)
    \/ \E r \in Requests, ans \in ConcCheckResults : CheckImage(r, ans)
    \/ \E r \in Requests, created \in ConcCreateResults : SaveToNotion(r, created)

SpecConc == InitConc /\ [][NextConc]_vars

(***************************************************************************)
(* The handler run alone, start to end, as a function of its form data,    *)
(* the environment and what each external call does when it is made        *)
(* (lines 56-239).                                                         *)
(***************************************************************************)
Outcome(response, pg) == [resp |-> response, page |-> pg]

\* lines 62-101: the recipe and the source, or the exception raised
ExtractPhase(f, x) ==
    Bind(ParseReply(x.extract), LAMBDA doc :
        IF FormGet(f.recipe_text) # <<>>
        THEN Bind(SetImaginary(doc, Bool(FALSE)),
                  LAMBDA rcp : Ok([recipe |-> rcp, source |-> "text"]))
        ELSE IF x.check.kind = "raise" THEN Raise(SdkError)
        ELSE IF HasText(x.check.text) THEN Ok([recipe |-> doc, source |-> "image"])
        ELSE Bind(SetImaginary(doc, Bool(TRUE)),
                  LAMBDA rcp : Ok([recipe |-> rcp, source |-> "image"])))

\* the save phase after the extraction phase
SavePhase(ph, f, e, x) ==
    IF ph.exc # NoExc THEN Outcome(HandleException(ph.exc), NoPage)
    ELSE Outcome(Save(ph.val.recipe, FormGet(f.source_link), e, ph.val.source,
                      x.create).resp,
                 Save(ph.val.recipe, FormGet(f.source_link), e, ph.val.source,
                      x.create).page)

extract_recipe(f, e, x) ==
    IF FormGet(f.recipe_text) = <<>> /\ f.images = <<>>
    THEN Outcome(ErrorResponse(NoInputMsg, 400), NoPage)
    ELSE SavePhase(ExtractPhase(f, x), f, e, x)

(***************************************************************************)
(* Properties.  What a request was given and what it did is read off its   *)
(* form data, its call log, its response and its page.                     *)
(***************************************************************************)
Done(r) == pc[r] = "done"
IsError(r) == Done(r) /\ resp[r].kind = "json" /\ "error" \in DOMAIN resp[r].body
IsSuccess(r) == Done(r) /\ resp[r].kind = "json" /\ "success" \in DOMAIN resp[r].body

\* a form field that is absent or holds whitespace only
Blank(field) == ~field.present \/ \A i \in 1..Len(field.v) : field.v[i] \in {" ", "\n"}
TextMode(r) == ~Blank(form[r].recipe_text)
NoInputCase(r) == Blank(form[r].recipe_text) /\ form[r].images = <<>>

Called(r, i, site) == i <= Len(calls[r]) /\ calls[r][i].site = site
Replied(r, i) == i <= Len(calls[r]) /\ calls[r][i].result.kind = "ok"
AnyRaise(r) == \E i \in 1..Len(calls[r]) : calls[r][i].result.kind = "raise"

\* the JSON document the extraction call answered with
Loaded(r) == JsonLoads(CleanText(calls[r][1].result.text))
ParseFailed(r) == Replied(r, 1) /\ Loaded(r).exc # NoExc
ParsedDoc(r) == Replied(r, 1) /\ Loaded(r).exc = NoExc
ParsedObject(r) == ParsedDoc(r) /\ Loaded(r).val.t = "obj"
ModelDoc(r) == Loaded(r).val

\* the check answer contains yes in any letter case
SaysYes(ans) ==
    \E i \in 1..(Len(ans) - 2) :
        ans[i] \in {"y", "Y"} /\ ans[i + 1] \in {"e", "E"} /\ ans[i + 2] \in {"s", "S"}

\* the handler got as far as the configuration check
ReachedSave(r) ==
    IF TextMode(r) THEN ParsedObject(r)
    ELSE /\ ParsedDoc(r)
         /\ Called(r, 2, "check") /\ Replied(r, 2)
         /\ (SaysYes(calls[r][2].result.text) \/ ParsedObject(r))

Configured == env.token /\ env.db

\* the response of a finished request is JSON: an error body with status 400
\* or 500, or a success body
Answered(r) ==
    /\ resp[r].kind = "json"
    /\ \/ /\ "error" \in DOMAIN resp[r].body
          /\ resp[r].status \in {400, 500}
       \/ /\ "success" \in DOMAIN resp[r].body
          /\ resp[r].body.success = TRUE

\* the number of steps the handler has taken for request r
Steps(r) == Cardinality({i \in 1..Len(schedule) : schedule[i] = r})

\* C1: whatever the external services return or raise, a request ends with a
\* JSON response that is either an error body with status 400 or 500 or a
\* success body; no exception escapes the handler, and the handler has
\* answered once its last external call (the second in text mode, the third
\* in image mode) has returned or raised.
C1_AlwaysAnswers ==
    \A r \in Requests :
        /\ Done(r) => Answered(r)
        /\ ~Done(r) => resp[r] = NoResp /\ Steps(r) < IF TextMode(r) THEN 2 ELSE 3

\* a JSON value that is not an object was answered with an error
C1_Witness ==
    \E r \in Requests :
        /\ IsError(r)
        /\ ParsedDoc(r) /\ ~ParsedObject(r)
        /\ resp[r].body.error = "object does not support item assignment"

OwnMessages == {NoInputMsg, NoImagesMsg, NotConfiguredMsg}

\* C2 as stated: a parse failure answers 500 with the retry message and every
\* other failure answers with one generic response, without a message of its
\* own and without another status.
C2_Original ==
    \A r \in Requests :
        IsError(r) =>
            IF ParseFailed(r) THEN resp[r] = ErrorResponse(ParseMsg, 500)
            ELSE resp[r].status = 500 /\ resp[r].body.error \notin OwnMessages

\* C2 amended: a parse failure answers 500 with the retry message, and only a
\* parse failure does; missing input answers 400 with its own message, and
\* only missing input answers 400; a missing Notion token or database id
\* answers 500 with its own message; every other failure answers 500 with the
\* text of the exception.
C2_Amended ==
    \A r \in Requests :
        IsError(r) =>
            /\ resp[r].status \in {400, 500}
            /\ ParseFailed(r) <=> resp[r].body.error = ParseMsg
            /\ ParseFailed(r) => resp[r].status = 500
            /\ NoInputCase(r) <=> resp[r].status = 400
            /\ NoInputCase(r) <=> resp[r].body.error = NoInputMsg
            /\ (ReachedSave(r) /\ ~Configured) <=> resp[r].body.error = NotConfiguredMsg
            /\ resp[r].body.error = NotConfiguredMsg => resp[r].status = 500

\* a parse failure was answered
C2_Witness ==
    \E r \in Requests :
        IsError(r) /\ ParseFailed(r) /\ calls[r][1].result.text # <<>>

SuccessKeys == {"success", "isImaginary", "source", "notion_url", "recipe"}

\* C3: a response is either success with the recipe, the flag, the source and
\* the page url and status 200, or an error string with another status; never
\* both, and no success without the recipe.
C3_ResponseShape ==
    \A r \in Requests :
        Done(r) =>
            /\ resp[r].kind = "json"
            /\ \/ /\ DOMAIN resp[r].body = SuccessKeys
                  /\ resp[r].body.success = TRUE
                  /\ resp[r].body.recipe.t = "obj"
                  /\ resp[r].status = 200
               \/ /\ DOMAIN resp[r].body = {"error"}
                  /\ resp[r].body.error \in STRING
                  /\ resp[r].status # 200

\* a success response that carries the url of the page
C3_Witness ==
    \E r \in Requests :
        IsSuccess(r) /\ resp[r].body.notion_url = Str(<<"https://notion/p1">>)

\* C4: the page-creation call is the last call of its request; before it the
\* extraction call (and in image mode the check call) has replied, the reply
\* parsed as JSON, and the token and the database id are both configured.
C4_Sequence ==
    \A r \in Requests :
        \A i \in 1..Len(calls[r]) :
            calls[r][i].site = "create" =>
                /\ i = Len(calls[r])
                /\ env.token /\ env.db
                /\ Called(r, 1, "extract") /\ ParsedDoc(r)
                /\ IF TextMode(r) THEN i = 2
                   ELSE i = 3 /\ Called(r, 2, "check") /\ Replied(r, 2)

\* an image request that made all three calls
C4_Witness ==
    \E r \in Requests :
        ~TextMode(r) /\ Len(calls[r]) = 3 /\ Called(r, 3, "create") /\ Done(r)

Count(r, site) == Cardinality({i \in 1..Len(calls[r]) : calls[r][i].site = site})
Failed(r, i) ==
    \/ calls[r][i].result.kind = "raise"
    \/ i = 1 /\ ParseFailed(r)

\* C5: each call site is invoked at most once in a request (no check call in
\* text mode), and a call that fails is the last call of its request, which
\* ends with an error response.
C5_NoRetry ==
    \A r \in Requests :
        /\ Count(r, "extract") <= 1
        /\ Count(r, "check") <= 1
        /\ Count(r, "create") <= 1
        /\ TextMode(r) => Count(r, "check") = 0
        /\ \A i \in 1..Len(calls[r]) :
              Failed(r, i) => i = Len(calls[r]) /\ IsError(r)

\* the check call raised after the extraction call had replied
C5_Witness ==
    \E r \in Requests :
        /\ Len(calls[r]) = 2
        /\ Called(r, 2, "check") /\ ~Replied(r, 2)
        /\ IsError(r)

ResultOf(r, site) ==
    IF \E i \in 1..Len(calls[r]) : calls[r][i].site = site
    THEN calls[r][CHOOSE i \in 1..Len(calls[r]) : calls[r][i].site = site].result
    ELSE Raises

\* what the external services did for request r
ExternalOf(r) ==
    [extract |-> ResultOf(r, "extract"),
     check |-> ResultOf(r, "check"),
     create |-> ResultOf(r, "create")]

\* C6: under any interleaving of the steps of concurrent requests, the
\* response and the page of a request are those the handler produces when it
\* runs alone on the request's form data and the replies to its own calls.
C6_Isolation ==
    \A r \in Requests :
        Done(r) =>
            /\ resp[r] = extract_recipe(form[r], env, ExternalOf(r)).resp
            /\ page[r] = extract_recipe(form[r], env, ExternalOf(r)).page

\* two requests whose steps alternated and that ended differently
C6_Witness ==
    /\ Requests = {1, 2}
    /\ Done(1) /\ Done(2)
    /\ Len(schedule) >= 4
    /\ schedule[1] = 1 /\ schedule[2] = 2 /\ schedule[3] = 1 /\ schedule[4] = 2
    /\ IsSuccess(1) /\ IsSuccess(2)
    /\ resp[1] # resp[2]
    /\ page[1] # page[2]

NoCallRaised(r) == ~AnyRaise(r)

StrList(x) == x.t = "list" /\ \A i \in 1..Len(x.v) : x.v[i].t = "str"
AbsentOrStrList(x) == x = Absent \/ StrList(x)

\* the documented shape of ingredients and steps
WellShaped(d) ==
    /\ \/ AbsentOrStrList(d.ingredients)
       \/ /\ d.ingredients.t = "obj"
          /\ AbsentOrStrList(d.ingredients.main)
          /\ AbsentOrStrList(d.ingredients.sauce)
          /\ AbsentOrStrList(d.ingredients.spicesAndHerbs)
    /\ \/ d.steps = Absent
       \/ /\ d.steps.t = "list"
          /\ \A i \in 1..Len(d.steps.v) :
                \/ d.steps.v[i].t = "str"
                \/ /\ d.steps.v[i].t = "obj"
                   /\ AbsentOrStrList(d.steps.v[i].ingredients)

\* the entries of a list, the characters of a string, nothing for a key that
\* is absent
Entries(x) ==
    IF x = Absent THEN <<>>
    ELSE IF x.t = "str" THEN [i \in 1..Len(x.v) |-> Str(<<x.v[i]>>)]
    ELSE x.v

\* main, sauce and spicesAndHerbs in that order, as one list (one string when
\* all three are strings)
Flattened(ing) ==
    IF ing = Absent THEN List(<<>>)
    ELSE IF ing.t = "list" THEN ing
    ELSE IF ing.main # Absent /\ ing.main.t = "str"
    THEN Str(ing.main.v \o ing.sauce.v \o ing.spicesAndHerbs.v)
    ELSE List(Entries(ing.main) \o Entries(ing.sauce) \o Entries(ing.spicesAndHerbs))

\* the instruction of each step
Instructions(steps) ==
    List([i \in 1..Len(Entries(steps)) |->
            IF Entries(steps)[i].t = "str" THEN Entries(steps)[i]
            ELSE IF Entries(steps)[i].instruction = Absent THEN Str(<<>>)
            ELSE Entries(steps)[i].instruction])

\* the flag the handler decides: false in text mode, true in image mode when
\* the check answer has no yes, the model's own value (false when it gave
\* none) otherwise
DecidedFlag(r) ==
    IF TextMode(r) THEN Bool(FALSE)
    ELSE IF ~SaysYes(calls[r][2].result.text) THEN Bool(TRUE)
    ELSE IF ModelDoc(r).isImaginary = Absent THEN Bool(FALSE)
    ELSE ModelDoc(r).isImaginary

C8_InputSelection ==
    \A r \in Requests :
        pc[r] # "start" =>
            /\ ~Blank(form[r].recipe_text) =>
                  /\ filesRead[r] = 0
                  /\ Called(r, 1, "extract")
                  /\ \A i \in 1..Len(calls[r]) :
                        calls[r][i].images = 0 /\ calls[r][i].site # "check"
                  /\ IsSuccess(r) => resp[r].body.source = "text"
            /\ NoInputCase(r) =>
                  /\ IsError(r) /\ resp[r].status = 400
                  /\ calls[r] = <<>>
                  /\ page[r] = NoPage

\* a text request that had uploaded an image as well and succeeded
C8_Witness ==
    \E r \in Requests :
        /\ ~Blank(form[r].recipe_text) /\ form[r].images # <<>>
        /\ IsSuccess(r)

\* the title the page gets when the flag is set
Wrapped(title) == Str(<<":sparkles: ">> \o title \o <<" (AI Recipe)">>)
TitleOf(d) == IF d.title = Absent THEN <<"Untitled Recipe">> ELSE d.title.v

\* C9: on success the flag returned is false in text mode; in image mode it
\* is true when the check answer does not contain yes in any letter case and
\* the model's own value otherwise; and the page has the warning callout as
\* its first block, the wrapped title and the robot icon exactly when the
\* flag is true.
C9_Flag ==
    \A r \in Requests :
        IsSuccess(r) =>
            /\ resp[r].body.isImaginary = DecidedFlag(r)
            /\ page[r].created
            /\ resp[r].body.isImaginary = Bool(TRUE)
                  <=> (page[r].children[1].type = "callout"
                       /\ page[r].children[1].color = "yellow_background")
            /\ resp[r].body.isImaginary = Bool(TRUE) <=> page[r].icon = "robot"
            /\ page[r].title =
                  IF resp[r].body.isImaginary = Bool(TRUE)
                  THEN Wrapped(TitleOf(ModelDoc(r)))
                  ELSE Str(TitleOf(ModelDoc(r)))

\* an image request whose check answer said yes in lower case, so that the
\* model's own false stands
C9_Witness ==
    \E r \in Requests :
        /\ IsSuccess(r) /\ ~TextMode(r)
        /\ calls[r][2].result.text = <<"y", "e", "s", ".">>
        /\ ModelDoc(r).isImaginary = Bool(FALSE)
        /\ resp[r].body.isImaginary = Bool(FALSE)
        /\ page[r].icon = "plate"

\* C10: a request that is answered with an error has created no page.
C10_NoPartialFailure ==
    \A r \in Requests : IsError(r) => page[r] = NoPage

====
